---- MODULE Spec2Model ----
(***************************************************************************)
(* Model of the smeller_db data-access layer: the channel-configuration    *)
(* map codec of DatabaseService, pydantic validation of                    *)
(* ChannelControlConfig / Color, the ORMClient unit of work and the        *)
(* AromaTrack / AromaBlock CRUD operations of DatabaseService.             *)
(*                                                                         *)
(* Python values are tagged records, so that a tuple and a list, an int    *)
(* and a str, a dict and None stay different values:                       *)
(*   [t |-> "none"]              None / JSON null / SQL NULL               *)
(*   [t |-> "bool", b |-> B]     bool                                      *)
(*   [t |-> "int", i |-> I]      int                                       *)
(*   [t |-> "float", f |-> F]    float, F counted in tenths (5 is 0.5)     *)
(*   [t |-> "str", s |-> S]      str, S a sequence of characters           *)
(*   [t |-> "list", a |-> A]     list / JSON array                         *)
(*   [t |-> "tuple", a |-> A]    tuple                                     *)
(*   [t |-> "dict", d |-> D]     dict in insertion order, D a sequence of  *)
(*                               <<key, value>>, key a character sequence  *)
(*   [t |-> "dict", o |-> O]     dict of keyword fields, O a function from *)
(*                               field names to values                     *)
(***************************************************************************)
EXTENDS Integers, Sequences, FiniteSets, TLC

\* ------------------------------------------------------------------ bounds
MaxEntries == 2      \* entries of a channel-configuration map / storage object
MaxId == 2           \* rows aroma_blocks ever receives (ids 1..MaxId)
MaxTrackId == 1      \* rows aroma_tracks ever receives (ids 1..MaxTrackId)
MaxCallers == 2      \* concurrent callers of the clients
MaxClients == 2      \* client objects ever constructed
MaxSessions == 2     \* sessions the session factories ever open

\* ---------------------------------------------------------- python values
PNone == [t |-> "none"]
PBool(b) == [t |-> "bool", b |-> b]
PInt(i) == [t |-> "int", i |-> i]
PFloat(f) == [t |-> "float", f |-> f]
PStr(s) == [t |-> "str", s |-> s]
PList(a) == [t |-> "list", a |-> a]
PTuple(a) == [t |-> "tuple", a |-> a]
PDict(d) == [t |-> "dict", d |-> d]
PObj(o) == [t |-> "dict", o |-> o]

IsKeyDict(v) == v.t = "dict" /\ "d" \in DOMAIN v
IsObj(v) == v.t = "dict" /\ "o" \in DOMAIN v

\* Python truth value of a value (the test of "if not json_configs" and of "x or {}")
Truthy(v) ==
    CASE v.t = "none" -> FALSE
      [] v.t = "bool" -> v.b
      [] v.t = "int" -> v.i # 0
      [] v.t = "float" -> v.f # 0
      [] v.t = "str" -> Len(v.s) > 0
      [] v.t \in {"list", "tuple"} -> Len(v.a) > 0
      [] IsKeyDict(v) -> Len(v.d) > 0
      [] OTHER -> DOMAIN v.o # {}

\* --------------------------------------------------------- str(int), int(str)
Digits == <<"0", "1", "2", "3", "4", "5", "6", "7", "8", "9">>
DigitChars == {Digits[i] : i \in 1..10}
DigitVal(c) == (CHOOSE i \in 1..10 : Digits[i] = c) - 1

RECURSIVE NatStr(_)
NatStr(n) == IF n < 10 THEN <<Digits[n + 1]>> ELSE NatStr(n \div 10) \o <<Digits[(n % 10) + 1]>>

\* str(n) of a Python int: decimal digits, "-" in front of a negative number
str(n) == IF n < 0 THEN <<"-">> \o NatStr(0 - n) ELSE NatStr(n)

RECURSIVE Strip(_)
Strip(s) ==
    IF s = <<>> THEN s
    ELSE IF Head(s) = " " THEN Strip(Tail(s))
    ELSE IF s[Len(s)] = " " THEN Strip(SubSeq(s, 1, Len(s) - 1))
    ELSE s

RECURSIVE DigitsVal(_, _)
DigitsVal(s, acc) ==
    IF s = <<>> THEN acc
    ELSE IF Head(s) = "_" THEN DigitsVal(Tail(s), acc)
    ELSE DigitsVal(Tail(s), 10 * acc + DigitVal(Head(s)))

\* the digit part of an int literal: digits, single underscores only between digits
DigitBody(s) ==
    /\ s # <<>>
    /\ \A i \in 1..Len(s) : s[i] \in DigitChars \cup {"_"}
    /\ s[1] # "_" /\ s[Len(s)] # "_"
    /\ \A i \in 1..(Len(s) - 1) : ~(s[i] = "_" /\ s[i + 1] = "_")

\* the literal without surrounding blanks: an optional sign, then the digit part
Unsigned(u) == IF u # <<>> /\ Head(u) \in {"+", "-"} THEN Tail(u) ELSE u
Sign(u) == IF u # <<>> /\ Head(u) = "-" THEN -1 ELSE 1
IntLiteral(u, body) ==
    IF DigitBody(body) THEN [ok |-> TRUE, v |-> Sign(u) * DigitsVal(body, 0)] ELSE [ok |-> FALSE]
Stripped(u) == IntLiteral(u, Unsigned(u))

\* int(s) of a Python str: [ok |-> TRUE, v |-> n], or [ok |-> FALSE] for ValueError
int(s) == Stripped(Strip(s))

\* ------------------------------------------------- pydantic field validation
ColorMin == 0
ColorMax == 255
CycleTimeMin == 1

Fail == [ok |-> FALSE]
Ok(v) == [ok |-> TRUE, v |-> v]

\* an int field in lax mode
ValidInt(v) ==
    CASE v.t = "int" -> Ok(v.i)
      [] v.t = "bool" -> Ok(IF v.b THEN 1 ELSE 0)
      [] v.t = "float" -> IF v.f % 10 = 0 THEN Ok(v.f \div 10) ELSE Fail
      [] v.t = "str" -> int(v.s)
      [] OTHER -> Fail

Tenths(p) == IF p.ok THEN Ok(10 * p.v) ELSE Fail

\* a float field in lax mode (the result counted in tenths)
ValidFloat(v) ==
    CASE v.t = "float" -> Ok(v.f)
      [] v.t = "int" -> Ok(10 * v.i)
      [] v.t = "bool" -> Ok(IF v.b THEN 10 ELSE 0)
      [] v.t = "str" -> Tenths(int(v.s))
      [] OTHER -> Fail

\* a str field: only a str is accepted
ValidStr(v) == IF v.t = "str" THEN Ok(v.s) ELSE Fail

\* mutant: the upper limit of a component is not checked
InColorRange_NoUpper(p) == IF p.ok /\ p.v >= ColorMin THEN p ELSE Fail

\* the constraints ge=0, le=255 of a Color component
InColorRange(p) == IF p.ok /\ p.v >= ColorMin /\ p.v <= ColorMax THEN p ELSE Fail

\* one component of Color: a required int with ge=0, le=255
ValidComponent(o, name) == IF name \notin DOMAIN o THEN Fail ELSE InColorRange(ValidInt(o[name]))

ColorOf(r, g, b) == IF r.ok /\ g.ok /\ b.ok THEN Ok([r |-> r.v, g |-> g.v, b |-> b.v]) ELSE Fail

\* Color(**v)
Color(v) ==
    IF ~IsObj(v) THEN Fail
    ELSE ColorOf(ValidComponent(v.o, "r"), ValidComponent(v.o, "g"), ValidComponent(v.o, "b"))

PairOf(x, y) == IF x.ok /\ y.ok THEN Ok(<<x.v, y.v>>) ELSE Fail

\* one element of waypoints: Tuple[float, float]
ValidWaypoint(v) ==
    IF v.t \notin {"list", "tuple"} \/ Len(v.a) # 2 THEN Fail
    ELSE PairOf(ValidFloat(v.a[1]), ValidFloat(v.a[2]))

ListOf(ps) == IF \A i \in 1..Len(ps) : ps[i].ok THEN Ok([i \in 1..Len(ps) |-> ps[i].v]) ELSE Fail

\* waypoints: List[Tuple[float, float]]
ValidWaypoints(v) ==
    IF v.t \notin {"list", "tuple"} THEN Fail
    ELSE ListOf([i \in 1..Len(v.a) |-> ValidWaypoint(v.a[i])])

\* a field with a default
WithDefault(o, name, default) == IF name \in DOMAIN o THEN ValidStr(o[name]) ELSE Ok(default)

linear == <<"l", "i", "n", "e", "a", "r">>
exponential == <<"e", "x", "p">>
sinusoidal == <<"s", "i", "n">>

\* the instance built from the validated fields, with the constraint ge=1 of cycle_time
ConfigOf(cid, ct, wp, it, ci, cn, co) ==
    IF cid.ok /\ ct.ok /\ wp.ok /\ it.ok /\ ci.ok /\ cn.ok /\ co.ok /\ ct.v >= CycleTimeMin
    THEN Ok([channel_id |-> cid.v, cycle_time |-> ct.v, waypoints |-> wp.v,
             interpolation_type |-> it.v, cartridge_id |-> ci.v,
             cartridge_name |-> cn.v, color |-> co.v])
    ELSE Fail

\* ChannelControlConfig(**v): [ok |-> TRUE, v |-> config], or [ok |-> FALSE]
\* for the TypeError of a non-mapping argument and for ValidationError
ChannelControlConfig(v) ==
    IF ~IsObj(v) THEN Fail
    ELSE ConfigOf(IF "channel_id" \in DOMAIN v.o THEN ValidInt(v.o.channel_id) ELSE Fail,
                  IF "cycle_time" \in DOMAIN v.o THEN ValidInt(v.o.cycle_time) ELSE Fail,
                  IF "waypoints" \in DOMAIN v.o THEN ValidWaypoints(v.o.waypoints) ELSE Fail,
                  WithDefault(v.o, "interpolation_type", linear),
                  WithDefault(v.o, "cartridge_id", <<>>),
                  WithDefault(v.o, "cartridge_name", <<>>),
                  IF "color" \in DOMAIN v.o THEN Color(v.o.color) ELSE Fail)

\* mutant: the dump turns the waypoint sequence round
model_dump_Reversed(c) ==
    PObj([channel_id |-> PInt(c.channel_id),
          cycle_time |-> PInt(c.cycle_time),
          waypoints |-> PList([i \in 1..Len(c.waypoints) |->
                          PTuple(<<PFloat(c.waypoints[Len(c.waypoints) + 1 - i][1]),
                                   PFloat(c.waypoints[Len(c.waypoints) + 1 - i][2])>>)]),
          interpolation_type |-> PStr(c.interpolation_type),
          cartridge_id |-> PStr(c.cartridge_id),
          cartridge_name |-> PStr(c.cartridge_name),
          color |-> PObj([r |-> PInt(c.color.r), g |-> PInt(c.color.g), b |-> PInt(c.color.b)])])

\* config.model_dump(): every field, nested Color as a dict, waypoints as a list of tuples
model_dump(c) ==
    PObj([channel_id |-> PInt(c.channel_id),
          cycle_time |-> PInt(c.cycle_time),
          waypoints |-> PList([i \in 1..Len(c.waypoints) |->
                          PTuple(<<PFloat(c.waypoints[i][1]), PFloat(c.waypoints[i][2])>>)]),
          interpolation_type |-> PStr(c.interpolation_type),
          cartridge_id |-> PStr(c.cartridge_id),
          cartridge_name |-> PStr(c.cartridge_name),
          color |-> PObj([r |-> PInt(c.color.r), g |-> PInt(c.color.g), b |-> PInt(c.color.b)])])

\* ------------------------------------------------------------ ordered dicts
\* A Python dict is a sequence of <<key, value>> with distinct keys, in insertion order.
Keys(d) == {d[i][1] : i \in 1..Len(d)}
HasKey(d, k) == \E i \in 1..Len(d) : d[i][1] = k
Get(d, k) == d[CHOOSE i \in 1..Len(d) : d[i][1] = k][2]

\* mutant: an assignment to a key the dict already has is ignored
DictSet_KeepFirst(d, k, v) == IF HasKey(d, k) THEN d ELSE Append(d, <<k, v>>)

\* d[k] = v: a present key keeps its place and takes the new value, a new key is appended
DictSet(d, k, v) ==
    IF HasKey(d, k)
    THEN [i \in 1..Len(d) |-> IF d[i][1] = k THEN <<k, v>> ELSE d[i]]
    ELSE Append(d, <<k, v>>)

\* dict equality: same keys, equal values, insertion order ignored
DictEq(d, e) == Keys(d) = Keys(e) /\ \A k \in Keys(d) : Get(d, k) = Get(e, k)

\* ------------------------------------------------------------------- codec
\* mutant: the entry is keyed by the config's own channel_id, not by the map key
RECURSIVE EncodeFrom_ByChannelId(_, _)
EncodeFrom_ByChannelId(items, acc) ==
    IF items = <<>> THEN acc
    ELSE EncodeFrom_ByChannelId(Tail(items),
                    DictSet(acc, str(Head(items)[2].channel_id), model_dump(Head(items)[2])))

RECURSIVE EncodeFrom(_, _)
EncodeFrom(items, acc) ==
    IF items = <<>> THEN acc
    ELSE EncodeFrom(Tail(items),
                    DictSet(acc, str(Head(items)[1]), model_dump(Head(items)[2])))

\* DatabaseService._convert_channel_configs_to_json_serializable
_convert_channel_configs_to_json_serializable(channel_configs) ==
    PDict(EncodeFrom(channel_configs, <<>>))

\* the try body of the decode loop: the entry is stored when neither int() nor the
\* construction raised, and skipped otherwise
DecodeEntry(acc, channel_id, config) ==
    IF channel_id.ok /\ config.ok THEN DictSet(acc, channel_id.v, config.v) ELSE acc

\* mutant: the first bad entry ends the loop (break instead of continue)
RECURSIVE DecodeFrom_Break(_, _)
DecodeFrom_Break(items, acc) ==
    IF items = <<>> THEN acc
    ELSE IF ~(int(Head(items)[1]).ok /\ ChannelControlConfig(Head(items)[2]).ok) THEN acc
    ELSE DecodeFrom_Break(Tail(items),
                          DecodeEntry(acc, int(Head(items)[1]), ChannelControlConfig(Head(items)[2])))

RECURSIVE DecodeFrom(_, _)
DecodeFrom(items, acc) ==
    IF items = <<>> THEN acc
    ELSE DecodeFrom(Tail(items),
                    DecodeEntry(acc, int(Head(items)[1]), ChannelControlConfig(Head(items)[2])))

\* mutant: no "if not json_configs" guard, .items() is called on whatever came
_convert_json_to_channel_configs_NoGuard(json_configs) ==
    IF IsKeyDict(json_configs)
    THEN [raised |-> FALSE, m |-> DecodeFrom(json_configs.d, <<>>)]
    ELSE [raised |-> TRUE]

\* DatabaseService._convert_json_to_channel_configs:
\* [raised |-> FALSE, m |-> map], or [raised |-> TRUE] when .items() is missing
_convert_json_to_channel_configs(json_configs) ==
    IF ~Truthy(json_configs) THEN [raised |-> FALSE, m |-> <<>>]
    ELSE IF IsKeyDict(json_configs)
         THEN [raised |-> FALSE, m |-> DecodeFrom(json_configs.d, <<>>)]
         ELSE [raised |-> TRUE]

\* the argument of the decode in every read path: "orm_block.channel_configurations or {}"
OrEmptyDict(v) == IF Truthy(v) THEN v ELSE PDict(<<>>)

\* a JSON column: what is read back after a value was stored (a tuple comes back as a list)
RECURSIVE ToJSON(_)
ToJSON(v) ==
    CASE v.t \in {"list", "tuple"} -> PList([i \in 1..Len(v.a) |-> ToJSON(v.a[i])])
      [] IsKeyDict(v) -> PDict([i \in 1..Len(v.d) |-> <<v.d[i][1], ToJSON(v.d[i][2])>>])
      [] IsObj(v) -> PObj([k \in DOMAIN v.o |-> ToJSON(v.o[k])])
      [] OTHER -> v

\* ------------------------------------------------------- inputs of the codec
ColorA == [r |-> 50, g |-> 150, b |-> 200]
ColorB == [r |-> 255, g |-> 0, b |-> 0]
ConfigA == [channel_id |-> 1, cycle_time |-> 30,
            waypoints |-> << <<0, 0>>, <<5, 10>>, <<10, 5>> >>,
            interpolation_type |-> linear, cartridge_id |-> <<"a", "1">>,
            cartridge_name |-> <<"R">>, color |-> ColorA]
ConfigB == [channel_id |-> 2, cycle_time |-> 45,
            waypoints |-> << <<0, 10>>, <<7, 2>> >>,
            interpolation_type |-> exponential, cartridge_id |-> <<>>,
            cartridge_name |-> <<>>, color |-> [r |-> 0, g |-> 120, b |-> 0]]
ConfigC == [channel_id |-> 1, cycle_time |-> 1,
            waypoints |-> <<>>,
            interpolation_type |-> sinusoidal, cartridge_id |-> <<"a", "1">>,
            cartridge_name |-> <<"U">>, color |-> ColorB]
Configs == {ConfigA, ConfigB, ConfigC}

\* integer keys of the in-memory map
ChannelIds == {-1, 1, 2, 10}

RawA == ToJSON(model_dump(ConfigA))
\* a stored entry that validation coerces: integral float, int for float, defaults, extra key
RawLax == PObj([channel_id |-> PInt(2), cycle_time |-> PFloat(450),
                waypoints |-> PList(<<PList(<<PInt(0), PFloat(10)>>)>>),
                color |-> PObj([r |-> PInt(0), g |-> PInt(120), b |-> PInt(0), a |-> PInt(255)])])
RawBadColor == PObj([k \in DOMAIN RawA.o |->
                       IF k = "color" THEN PObj([r |-> PInt(256), g |-> PInt(0), b |-> PInt(0)])
                       ELSE RawA.o[k]])
RawBadCycle == PObj([k \in DOMAIN RawA.o |-> IF k = "cycle_time" THEN PInt(0) ELSE RawA.o[k]])
RawNoChannel == PObj([k \in DOMAIN RawA.o \ {"channel_id"} |-> RawA.o[k]])
RawBadWaypoint == PObj([k \in DOMAIN RawA.o |->
                          IF k = "waypoints" THEN PList(<<PList(<<PFloat(0), PFloat(5), PFloat(10)>>)>>)
                          ELSE RawA.o[k]])
RawValues == {RawA, RawLax, RawBadColor, RawBadCycle, RawNoChannel, RawBadWaypoint,
              PList(<<PInt(1)>>), PInt(5), PNone}

\* keys of a storage object
RawKeys == {<<"1">>, <<"2">>, <<"0", "1">>, <<"-", "1">>, <<"x">>, <<>>}

\* sequences of at most n pairs <<key, value>> with distinct keys
RECURSIVE Dicts(_, _, _)
Dicts(ks, vs, n) ==
    IF n = 0 THEN {<<>>}
    ELSE LET shorter == Dicts(ks, vs, n - 1)
         IN  shorter \cup {Append(d, <<k, v>>) : d \in {e \in shorter : Len(e) = n - 1},
                                                  k \in ks, v \in vs}

DistinctKeys(d) == \A i, j \in 1..Len(d) : d[i][1] = d[j][1] => i = j

\* storage objects of at most n entries
StorageObjects(n) == {PDict(d) : d \in {e \in Dicts(RawKeys, RawValues, n) : DistinctKeys(e)}}

\* storage values of every JSON shape
StorageValues(n) ==
    StorageObjects(n) \cup {PNone, PList(<<>>), PList(<<PInt(1)>>), PStr(<<>>), PStr(<<"x">>),
                         PInt(0), PInt(7), PBool(TRUE), PBool(FALSE)}

\* in-memory maps of at most n validated configs
ConfigMaps(n) == {e \in Dicts(ChannelIds, Configs, n) : DistinctKeys(e)}

\* ------------------------------------------------------------------- state
VARIABLES
    fn,        \* codec: the function applied last ("none" before any)
    arg,       \* codec: the input drawn for it
    out,       \* codec: its result
    tracks,    \* committed rows of table aroma_tracks, by id
    blocks,    \* committed rows of table sl_aromablocks, by id
    trackSeq,  \* last id the aroma_tracks sequence gave out
    blockSeq,  \* last id the sl_aromablocks sequence gave out
    ret,       \* the last DatabaseService call: arguments, exit branch, outcome, value
    clients,   \* client objects ever constructed: kind and session attribute (0 is None)
    sessions,  \* sessions ever opened by a session factory: opener, client, state, end
    pc,        \* per caller: the client object its local name db is bound to (0: none)
    act        \* the last call of a client method: caller, method, session, outcome

codecVars == <<fn, arg, out>>
dbVars == <<tracks, blocks, trackSeq, blockSeq, ret>>
clientVars == <<clients, sessions, pc, act>>
vars == <<fn, arg, out, tracks, blocks, trackSeq, blockSeq, ret, clients, sessions, pc, act>>

\* ------------------------------------------------------------ ORM client
\* ORMClient.get / Session.get: the row with that primary key, or None
get(table, pk) == IF pk \in DOMAIN table THEN [found |-> TRUE, row |-> table[pk]] ELSE [found |-> FALSE]

\* mutant: the delete reports success without looking at what the fetch found
delete_AlwaysTrue(table, pk) == [result |-> TRUE, deleted |-> {pk} \cap DOMAIN table]

\* ORMClient.delete(model, pk): fetch, mark the instance for deletion and return True,
\* or return False when the fetch found nothing
delete(table, pk) ==
    IF get(table, pk).found
    THEN [result |-> TRUE, deleted |-> {pk}]
    ELSE [result |-> FALSE, deleted |-> {}]

\* mutant: the exit closes the session without committing
__exit___NoCommit(exc_type, commitFails) ==
    IF exc_type THEN [branch |-> "rollback", committed |-> FALSE, raises |-> TRUE]
    ELSE [branch |-> "commit", committed |-> FALSE, raises |-> commitFails]

\* ORMClient.__exit__: rollback when the body raised, commit otherwise; an error of
\* the commit is raised again; the exit returns False, so an exception of the body
\* goes on to the caller; the session is closed on every path
__exit__(exc_type, commitFails) ==
    IF exc_type THEN [branch |-> "rollback", committed |-> FALSE, raises |-> TRUE]
    ELSE IF commitFails THEN [branch |-> "commit", committed |-> FALSE, raises |-> TRUE]
    ELSE [branch |-> "commit", committed |-> TRUE, raises |-> FALSE]

\* ------------------------------------------------------- rows and aggregates
\* the foreign key sl_aromablocks.aroma_track_id -> aroma_tracks.id
ForeignKeyHolds(ts, aroma_track_id) == aroma_track_id.t = "none" \/ aroma_track_id.i \in DOMAIN ts

NameMax == 255

\* AromaTrack.model_validate(orm_track)
AromaTrack(id, row) ==
    IF id >= 1 /\ Len(row.name) >= 1 /\ Len(row.name) <= NameMax
    THEN Ok([t |-> "track", id |-> id, name |-> row.name, description |-> row.description])
    ELSE Fail

\* AromaBlock(id=..., name=..., channel_configurations=...): the aggregate with an id
AromaBlock(id, row, channel_configs) ==
    IF id >= 1 /\ Len(row.name) >= 1 /\ Len(row.name) <= NameMax
       /\ row.start_time >= 0 /\ row.stop_time >= 0
    THEN Ok([t |-> "block", id |-> id, name |-> row.name, description |-> row.description,
             data_type |-> row.data_type, content_link |-> row.content_link,
             channel_configurations |-> channel_configs,
             start_time |-> row.start_time, stop_time |-> row.stop_time,
             aroma_track_id |-> row.aroma_track_id])
    ELSE Fail

\* what a with-body that validates an aggregate gives: the aggregate, or the exception
Validated(a) == IF a.ok THEN [raises |-> FALSE, val |-> a.v] ELSE [raises |-> TRUE]

\* the value a body returned (None stands in where it raised)
Value(body) == IF body.raises THEN PNone ELSE body.val

BlockOf(id, row, channel_configs) ==
    IF channel_configs.raised THEN [raises |-> TRUE]
    ELSE Validated(AromaBlock(id, row, channel_configs.m))

\* the body of a read of one block row: decode "channel_configurations or {}", build
\* the aggregate; [raises |-> TRUE] when the decode or the validation raises
ReadBlock(id, row) ==
    BlockOf(id, row, _convert_json_to_channel_configs(OrEmptyDict(row.channel_configurations)))

\* DatabaseService.get_aromablock_by_id, in a session of its own over the committed rows
get_aromablock_by_id(bs, aromablock_id) ==
    IF get(bs, aromablock_id).found THEN ReadBlock(aromablock_id, bs[aromablock_id])
    ELSE [raises |-> FALSE, val |-> PNone]

\* DatabaseService.get_aroma_track_by_id, in a session of its own over the committed rows
get_aroma_track_by_id(ts, track_id) ==
    IF get(ts, track_id).found THEN Validated(AromaTrack(track_id, ts[track_id]))
    ELSE [raises |-> FALSE, val |-> PNone]

\* AromaBlockModel(...) of create_aromablock: the ORM object before the flush
NewBlockRow(aromablock_create) ==
    [name |-> aromablock_create.name, description |-> aromablock_create.description,
     data_type |-> aromablock_create.data_type, content_link |-> aromablock_create.content_link,
     channel_configurations |->
         _convert_channel_configs_to_json_serializable(aromablock_create.channel_configurations),
     start_time |-> aromablock_create.start_time, stop_time |-> aromablock_create.stop_time,
     aroma_track_id |-> aromablock_create.aroma_track_id]

\* mutant: the new channel entries are merged into the stored ones
UpdatedBlockRow_Merge(row, update_data) ==
    [NewBlockRow(update_data) EXCEPT !.channel_configurations =
        IF IsKeyDict(row.channel_configurations)
        THEN PDict(EncodeFrom(update_data.channel_configurations, row.channel_configurations.d))
        ELSE @]

\* the attribute writes of update_aromablock: every mutable field is overwritten
UpdatedBlockRow(row, update_data) ==
    [row EXCEPT !.name = update_data.name,
                !.description = update_data.description,
                !.data_type = update_data.data_type,
                !.content_link = update_data.content_link,
                !.start_time = update_data.start_time,
                !.stop_time = update_data.stop_time,
                !.aroma_track_id = update_data.aroma_track_id,
                !.channel_configurations =
                    _convert_channel_configs_to_json_serializable(update_data.channel_configurations)]

\* the attribute writes of update_aroma_track
UpdatedTrackRow(row, update_data) ==
    [row EXCEPT !.name = update_data.name, !.description = update_data.description]

\* what the table holds after the row was written: the JSON column keeps arrays, not tuples
Stored(row) == [row EXCEPT !.channel_configurations = ToJSON(@)]

\* mutant: the delete of a track cascades to the blocks that reference it
NullifyTrack_Cascade(bs, track_ids) ==
    [b \in {k \in DOMAIN bs : ~(/\ bs[k].aroma_track_id.t = "int"
                                /\ bs[k].aroma_track_id.i \in track_ids)} |-> bs[b]]

\* the flush of a deleted track: the blocks that reference it get aroma_track_id NULL
NullifyTrack(bs, track_ids) ==
    [b \in DOMAIN bs |->
        IF bs[b].aroma_track_id.t = "int" /\ bs[b].aroma_track_id.i \in track_ids
        THEN [bs[b] EXCEPT !.aroma_track_id = PNone]
        ELSE bs[b]]

\* mutant: the commit leaves the rows marked for deletion in the table
Without_Keep(table, ids) == table

\* the table after the commit of a session that deleted the rows ids
Without(table, ids) == [k \in DOMAIN table \ ids |-> table[k]]
With(table, id, row) == [k \in DOMAIN table \cup {id} |-> IF k = id THEN row ELSE table[k]]

\* ------------------------------------------------------ inputs of the service
TrackR == [name |-> <<"R">>, description |-> PStr(<<"d">>)]
TrackS == [name |-> <<"S">>, description |-> PNone]
TrackPayloads == {TrackR, TrackS}

BlockTwo == [name |-> <<"A">>, description |-> PStr(<<"d">>), data_type |-> <<"w">>,
             content_link |-> <<"l">>,
             channel_configurations |-> << <<1, ConfigA>>, <<2, ConfigB>> >>,
             start_time |-> 0, stop_time |-> 1200, aroma_track_id |-> PInt(1)]
BlockOne == [name |-> <<"B">>, description |-> PStr(<<"e">>), data_type |-> <<"w">>,
             content_link |-> <<"u">>,
             channel_configurations |-> << <<1, ConfigC>> >>,
             start_time |-> 50, stop_time |-> 1250, aroma_track_id |-> PInt(1)]
BlockNone == [name |-> <<"C">>, description |-> PNone, data_type |-> <<"w">>,
              content_link |-> <<"l">>,
              channel_configurations |-> <<>>,
              start_time |-> 0, stop_time |-> 0, aroma_track_id |-> PNone]
BlockPayloads == {BlockTwo, BlockOne, BlockNone}

\* rows the table may hold before the service starts: a NULL column, a column that is
\* not an object, a column with one good and two bad entries
LegacyRow(column) ==
    [name |-> <<"L">>, description |-> PNone, data_type |-> <<"w">>, content_link |-> <<"l">>,
     channel_configurations |-> column, start_time |-> 0, stop_time |-> 10,
     aroma_track_id |-> PNone]
LegacyColumns == {PNone, PList(<<PInt(1)>>),
                  PDict(<< <<<<"1">>, RawA>>, <<<<"x">>, RawA>>, <<<<"2">>, RawBadColor>> >>)}

NoCall == [op |-> "none"]

\* callers of the clients
Callers == 1..MaxCallers

NoAct == [op |-> "none"]

\* no client was constructed yet
ClientIdle ==
    /\ clients = <<>>
    /\ sessions = <<>>
    /\ pc = [p \in Callers |-> 0]
    /\ act = NoAct

DbInit ==
    /\ tracks = <<>>
    /\ trackSeq = 0
    /\ \/ blocks = <<>> /\ blockSeq = 0
       \/ \E column \in LegacyColumns : blocks = (1 :> LegacyRow(column)) /\ blockSeq = 1
    /\ ret = NoCall

DbIdle ==
    /\ tracks = <<>> /\ trackSeq = 0
    /\ blocks = <<>> /\ blockSeq = 0
    /\ ret = NoCall

NoOut == [raised |-> FALSE, m |-> <<>>]

CodecInit ==
    /\ fn = "none"
    /\ arg \in {[kind |-> "storage", v |-> v] : v \in StorageValues(MaxEntries)}
               \cup {[kind |-> "map", m |-> m] : m \in ConfigMaps(MaxEntries)}
    /\ out = NoOut
    /\ DbIdle
    /\ ClientIdle

\* _convert_json_to_channel_configs(v) called on a storage value
Decode ==
    /\ fn = "none" /\ arg.kind = "storage"
    /\ fn' = "decode"
    /\ out' = _convert_json_to_channel_configs(arg.v)
    /\ UNCHANGED <<arg, dbVars, clientVars>>

\* _convert_json_to_channel_configs(column or {}), the call of the read paths
DecodeColumn ==
    /\ fn = "none" /\ arg.kind = "storage"
    /\ fn' = "decode_column"
    /\ out' = _convert_json_to_channel_configs(OrEmptyDict(arg.v))
    /\ UNCHANGED <<arg, dbVars, clientVars>>

\* _convert_channel_configs_to_json_serializable(m) called on a map
Encode ==
    /\ fn = "none" /\ arg.kind = "map"
    /\ fn' = "encode"
    /\ out' = [raised |-> FALSE, m |-> <<>>,
               v |-> _convert_channel_configs_to_json_serializable(arg.m)]
    /\ UNCHANGED <<arg, dbVars, clientVars>>

\* _convert_json_to_channel_configs called on the result of the encode
DecodeEncoded ==
    /\ fn = "encode"
    /\ fn' = "roundtrip"
    /\ out' = _convert_json_to_channel_configs(out.v)
    /\ UNCHANGED <<arg, dbVars, clientVars>>

CodecNext == Decode \/ DecodeColumn \/ Encode \/ DecodeEncoded

SpecCodec == CodecInit /\ [][CodecNext]_vars

\* ------------------------------------------------------ service operations
Ids == 1..MaxId
TrackIds == 1..MaxTrackId
CreateFaults == {"none", "add", "flush"}

Call(op, id, data, fault, commitFails, exit, val) ==
    [op |-> op, id |-> id, data |-> data, fault |-> fault, commitFails |-> commitFails,
     branch |-> exit.branch, committed |-> exit.committed, raises |-> exit.raises,
     val |-> IF exit.raises THEN PNone ELSE val]

\* the aggregates of the rows with ids from..to, in id order; raises when one read raises
Cons(b, rest) ==
    IF b.raises \/ rest.raises THEN [raises |-> TRUE]
    ELSE [raises |-> FALSE, val |-> <<b.val>> \o rest.val]

RECURSIVE ReadBlocks(_, _, _)
ReadBlocks(bs, from, to) ==
    IF from > to THEN [raises |-> FALSE, val |-> <<>>]
    ELSE IF from \notin DOMAIN bs THEN ReadBlocks(bs, from + 1, to)
    ELSE Cons(ReadBlock(from, bs[from]), ReadBlocks(bs, from + 1, to))

\* the list a listing returns
ListOfBlocks(body) == IF body.raises THEN body ELSE [raises |-> FALSE, val |-> PList(body.val)]

\* a read operation: the body runs in a session, the exit rolls back when it raised
ReadCall(op, id, body) ==
    /\ ret' = Call(op, id, PNone, "none", FALSE, __exit__(body.raises, FALSE), Value(body))
    /\ UNCHANGED <<tracks, blocks, trackSeq, blockSeq, codecVars, clientVars>>

TrackRow(track_create) == [name |-> track_create.name, description |-> track_create.description]

CreateTrack(track_create, fault, commitFails, id, exit) ==
    /\ trackSeq < MaxTrackId
    /\ tracks' = IF fault = "none" /\ exit.committed
                 THEN With(tracks, id, TrackRow(track_create)) ELSE tracks
    /\ trackSeq' = IF fault = "none" /\ exit.committed THEN id ELSE trackSeq
    /\ ret' = Call("create_aroma_track", 0, track_create, fault, commitFails, exit,
                   IF fault = "none" THEN Value(Validated(AromaTrack(id, TrackRow(track_create))))
                   ELSE PNone)
    /\ UNCHANGED <<blocks, blockSeq, codecVars, clientVars>>

\* DatabaseService.create_aroma_track: add and flush inside try / except Exception,
\* so a failure of either is logged, None is returned and the block is left normally
create_aroma_track ==
    \E track_create \in TrackPayloads, fault \in CreateFaults, commitFails \in BOOLEAN :
        CreateTrack(track_create, fault, commitFails, trackSeq + 1, __exit__(FALSE, commitFails))

\* DatabaseService.get_aroma_track_by_id
get_aroma_track ==
    \E track_id \in TrackIds :
        ReadCall("get_aroma_track_by_id", track_id, get_aroma_track_by_id(tracks, track_id))

\* the aggregates of the track rows with ids from..to, in id order
RECURSIVE ReadTracks(_, _, _)
ReadTracks(ts, from, to) ==
    IF from > to THEN [raises |-> FALSE, val |-> <<>>]
    ELSE IF from \notin DOMAIN ts THEN ReadTracks(ts, from + 1, to)
    ELSE Cons(Validated(AromaTrack(from, ts[from])), ReadTracks(ts, from + 1, to))

\* DatabaseService.get_all_aroma_tracks
get_all_aroma_tracks ==
    ReadCall("get_all_aroma_tracks", 0, ListOfBlocks(ReadTracks(tracks, 1, trackSeq)))

UpdateTrack(track_id, update_data, commitFails, orm_track, reread, exit) ==
    /\ tracks' = IF orm_track.found /\ exit.committed
                 THEN With(tracks, track_id, UpdatedTrackRow(orm_track.row, update_data))
                 ELSE tracks
    /\ ret' = Call("update_aroma_track", track_id, update_data, "none", commitFails, exit,
                   IF orm_track.found THEN Value(reread) ELSE PNone)
    /\ UNCHANGED <<blocks, trackSeq, blockSeq, codecVars, clientVars>>

\* DatabaseService.update_aroma_track: the attribute writes stay in the session until
\* its exit; the value returned is read by get_aroma_track_by_id in a second session,
\* over the committed rows, and an exception of that read is caught by the try body
update_aroma_track ==
    \E track_id \in TrackIds, update_data \in TrackPayloads, commitFails \in BOOLEAN :
        UpdateTrack(track_id, update_data, commitFails, get(tracks, track_id),
                    get_aroma_track_by_id(tracks, track_id), __exit__(FALSE, commitFails))

DeleteTrack(track_id, commitFails, d, exit) ==
    /\ tracks' = IF exit.committed THEN Without(tracks, d.deleted) ELSE tracks
    /\ blocks' = IF exit.committed /\ d.deleted \subseteq DOMAIN tracks
                 THEN NullifyTrack(blocks, d.deleted) ELSE blocks
    /\ ret' = Call("delete_aroma_track", track_id, PNone, "none", commitFails, exit,
                   PBool(d.result))
    /\ UNCHANGED <<trackSeq, blockSeq, codecVars, clientVars>>

\* DatabaseService.delete_aroma_track: the commit deletes the row and sets the
\* aroma_track_id of the blocks that reference it to NULL
delete_aroma_track ==
    \E track_id \in TrackIds, commitFails \in BOOLEAN :
        DeleteTrack(track_id, commitFails, delete(tracks, track_id), __exit__(FALSE, commitFails))

CreateBlock(aromablock_create, fault, commitFails, id, orm_aromablock, flushed, exit) ==
    /\ blockSeq < MaxId
    /\ blocks' = IF flushed /\ exit.committed
                 THEN With(blocks, id, Stored(orm_aromablock)) ELSE blocks
    /\ blockSeq' = IF flushed /\ exit.committed THEN id ELSE blockSeq
    /\ ret' = Call("create_aromablock", 0, aromablock_create, fault, commitFails, exit,
                   IF flushed THEN Value(ReadBlock(id, orm_aromablock)) ELSE PNone)
    /\ UNCHANGED <<tracks, trackSeq, codecVars, clientVars>>

\* DatabaseService.create_aromablock: encode, add, flush (the foreign key is checked
\* by the INSERT), decode the object's column, return the aggregate; any exception of
\* the try body is logged and None is returned
create_aromablock ==
    \E aromablock_create \in BlockPayloads :
        LET orm_aromablock == NewBlockRow(aromablock_create)
        IN  \E fault \in CreateFaults, commitFails \in BOOLEAN :
                CreateBlock(aromablock_create, fault, commitFails, blockSeq + 1,
                            orm_aromablock,
                            /\ fault = "none"
                            /\ ForeignKeyHolds(tracks, aromablock_create.aroma_track_id),
                            __exit__(FALSE, commitFails))

\* DatabaseService.get_aromablock_by_id
get_aromablock ==
    \E aromablock_id \in Ids :
        ReadCall("get_aromablock_by_id", aromablock_id, get_aromablock_by_id(blocks, aromablock_id))

\* DatabaseService.get_all_aromablocks
get_all_aromablocks ==
    ReadCall("get_all_aromablocks", 0, ListOfBlocks(ReadBlocks(blocks, 1, blockSeq)))

UpdateBlock(aromablock_id, update_data, commitFails, orm_aromablock, reread, exit) ==
    /\ blocks' = IF orm_aromablock.found /\ exit.committed
                 THEN With(blocks, aromablock_id,
                           Stored(UpdatedBlockRow(orm_aromablock.row, update_data)))
                 ELSE blocks
    /\ ret' = Call("update_aromablock", aromablock_id, update_data, "none", commitFails, exit,
                   IF orm_aromablock.found THEN Value(reread) ELSE PNone)
    /\ UNCHANGED <<tracks, trackSeq, blockSeq, codecVars, clientVars>>

\* DatabaseService.update_aromablock: the attribute writes stay in the session until
\* its exit; the value returned is read by get_aromablock_by_id in a second session,
\* over the committed rows, and an exception of that read is caught by the except of
\* the try body; the UPDATE is sent by the commit, which checks the foreign key
update_aromablock ==
    \E aromablock_id \in Ids :
        LET reread == get_aromablock_by_id(blocks, aromablock_id)
        IN  \E update_data \in BlockPayloads, commitFails \in BOOLEAN :
                UpdateBlock(aromablock_id, update_data, commitFails, get(blocks, aromablock_id),
                            reread,
                            __exit__(FALSE, commitFails
                                            \/ (/\ aromablock_id \in DOMAIN blocks
                                                /\ ~ForeignKeyHolds(tracks,
                                                                    update_data.aroma_track_id))))

DeleteBlock(aromablock_id, commitFails, d, exit) ==
    /\ blocks' = IF exit.committed THEN Without(blocks, d.deleted) ELSE blocks
    /\ ret' = Call("delete_aromablock", aromablock_id, PNone, "none", commitFails, exit,
                   PBool(d.result))
    /\ UNCHANGED <<tracks, trackSeq, blockSeq, codecVars, clientVars>>

\* DatabaseService.delete_aromablock
delete_aromablock ==
    \E aromablock_id \in Ids, commitFails \in BOOLEAN :
        DeleteBlock(aromablock_id, commitFails, delete(blocks, aromablock_id),
                    __exit__(FALSE, commitFails))

Init ==
    /\ fn = "none" /\ arg = [kind |-> "idle"] /\ out = NoOut
    /\ DbInit
    /\ ClientIdle

Next ==
    \/ create_aroma_track
    \/ get_aroma_track
    \/ get_all_aroma_tracks
    \/ update_aroma_track
    \/ delete_aroma_track
    \/ create_aromablock
    \/ get_aromablock
    \/ get_all_aromablocks
    \/ update_aromablock
    \/ delete_aromablock

Spec == Init /\ [][Next]_vars


\* ------------------------------------------------ client objects and sessions
\* the methods of the two clients that work through self.session
SyncMethods == {"add", "add_all", "get", "all", "query", "delete", "flush", "commit",
                "rollback", "execute_raw_sql"}
AsyncMethods == {"add", "add_all", "get", "all", "delete", "flush", "rollback",
                 "execute_raw_sql"}
Methods(kind) == IF kind = "sync" THEN SyncMethods ELSE AsyncMethods

\* mutant: every construction after the first hands out the client made first
ORMClient_Shared(heap, kind) ==
    IF heap = <<>> THEN Append(heap, [kind |-> kind, session |-> 0]) ELSE heap

\* ORMClient(config) / AsyncORMClient(config): a new object on the heap, its session
\* attribute None
ORMClient(heap, kind) == Append(heap, [kind |-> kind, session |-> 0])

\* self._SessionFactory(): a new open session, here tagged with who opened it
SessionFactory(p, k) == [opener |-> p, client |-> k, state |-> "open", end |-> "none"]

\* mutant: the guard lets a client without session through
_ensure_session_Off(session) == "none"

\* "if not self.session: raise RuntimeError" / AsyncORMClient._ensure_session
_ensure_session(session) == IF session = 0 THEN "RuntimeError" ELSE "none"

\* what a guarded method does once the guard is passed: the call on self.session, an
\* AttributeError when that is None
Guarded(guard, session) ==
    IF guard # "none" THEN [error |-> guard, storage |-> FALSE]
    ELSE IF session = 0 THEN [error |-> "AttributeError", storage |-> FALSE]
    ELSE [error |-> "none", storage |-> TRUE]

\* add, add_all, get, all, query, delete, flush, commit, rollback, execute_raw_sql
Method(session) == Guarded(_ensure_session(session), session)

\* the try block of the exit: rollback when the body raised, commit otherwise; an
\* error of either is raised again
EndTransaction(exc_type, fails) ==
    [branch |-> IF exc_type THEN "rollback" ELSE "commit",
     error |-> IF fails THEN "SQLAlchemyError" ELSE "none",
     end |-> IF fails THEN "none" ELSE IF exc_type THEN "rollback" ELSE "commit"]

\* mutant: the session is closed only when the commit or rollback went through
Release_OnSuccess(t, session) ==
    [branch |-> t.branch, error |-> t.error, end |-> t.end,
     closed |-> t.error = "none", session |-> IF t.error = "none" THEN 0 ELSE session]

\* the finally block of the exit: self.session.close(); self.session = None
Release(t, session) ==
    [branch |-> t.branch, error |-> t.error, end |-> t.end, closed |-> TRUE, session |-> 0]

\* the exit called on a client whose session attribute is None: the commit or rollback
\* on None raises AttributeError, and so does the close of the finally block
ExitUnentered(exc_type) ==
    [branch |-> IF exc_type THEN "rollback" ELSE "commit", error |-> "AttributeError",
     end |-> "none", closed |-> FALSE, session |-> 0, returned |-> "none"]

\* the value the exit returns on the paths that return
ReturnOf(r, value) ==
    [branch |-> r.branch, error |-> r.error, end |-> r.end, closed |-> r.closed,
     session |-> r.session, returned |-> IF r.error = "none" THEN value ELSE "none"]

\* mutant: the exit returns True
ORMClient__exit___Suppress(session, exc_type, fails) ==
    IF session = 0 THEN ExitUnentered(exc_type)
    ELSE ReturnOf(Release(EndTransaction(exc_type, fails), session), "True")

\* ORMClient.__exit__(exc_type, exc_val, exc_tb)
ORMClient__exit__(session, exc_type, fails) ==
    IF session = 0 THEN ExitUnentered(exc_type)
    ELSE ReturnOf(Release(EndTransaction(exc_type, fails), session), "False")

\* AsyncORMClient.__aexit__(exc_type, exc_val, exc_tb): try / finally without except
AsyncORMClient__aexit__(session, exc_type, fails) ==
    IF session = 0 THEN ExitUnentered(exc_type)
    ELSE ReturnOf(Release(EndTransaction(exc_type, fails), session), "False")

\* the exit of a client of this kind
ExitOf(kind, session, exc_type, fails) ==
    IF kind = "sync" THEN ORMClient__exit__(session, exc_type, fails)
    ELSE AsyncORMClient__aexit__(session, exc_type, fails)

\* what reaches the code outside a with-block: the error of the exit, else the
\* exception of the body unless the exit returned a true value
Propagates(exc_type, exit) ==
    IF exit.error # "none" THEN exit.error
    ELSE IF exc_type /\ exit.returned # "True" THEN "body"
    ELSE "none"

\* the record of one call of a client method: had is the session attribute when the
\* method was entered, session the one it is afterwards
Act(op, p, k, kind, had, session, exc_type, error, returned, storage, propagates) ==
    [op |-> op, caller |-> p, client |-> k, kind |-> kind, had |-> had, session |-> session,
     exc |-> exc_type, error |-> error, returned |-> returned, storage |-> storage,
     propagates |-> propagates]

\* "ORMClient(config=self.db_config) as db": caller p constructs a client and binds
\* its local name to it; the clients of one behaviour are all of one kind, as those of
\* DatabaseService (sync) and of AsyncDatabaseService (async) are
New(p) ==
    \E kind \in {"sync", "async"} :
        LET cs == ORMClient(clients, kind)
            k == Len(cs)
        IN  /\ Len(clients) < MaxClients
            /\ clients # <<>> => kind = clients[1].kind
            /\ clients' = cs
            /\ pc' = [pc EXCEPT ![p] = k]
            /\ act' = Act("__init__", p, k, cs[k].kind, cs[k].session, cs[k].session, FALSE,
                          "none", "none", FALSE, "none")
            /\ UNCHANGED <<sessions, codecVars, dbVars>>

\* ORMClient.__enter__ / AsyncORMClient.__aenter__: self.session = self._SessionFactory()
Enter(p) ==
    LET k == pc[p]
        s == Len(sessions) + 1
    IN  /\ k # 0
        /\ Len(sessions) < MaxSessions
        /\ sessions' = Append(sessions, SessionFactory(p, k))
        /\ clients' = [clients EXCEPT ![k].session = s]
        /\ act' = Act("enter", p, k, clients[k].kind, clients[k].session, s, FALSE,
                      "none", "self", FALSE, "none")
        /\ UNCHANGED <<pc, codecVars, dbVars>>

\* caller p calls one of these session methods of its client
Invoke(p, methods) ==
    \E method \in methods :
        LET k == pc[p]
            r == Method(clients[k].session)
        IN  /\ k # 0
            /\ method \in Methods(clients[k].kind)
            /\ act' = Act(method, p, k, clients[k].kind, clients[k].session,
                          clients[k].session, FALSE, r.error,
                          IF r.error = "none" THEN "value" ELSE "none", r.storage, r.error)
            /\ UNCHANGED <<clients, sessions, pc, codecVars, dbVars>>

\* ORMClient.__exit__ / AsyncORMClient.__aexit__ called by p at the end of a with-block
\* whose body raised (exc_type) or not, with a commit or rollback that fails or not;
\* db is what the caller's local name is bound to afterwards
Exit(p, db) ==
    \E exc_type \in BOOLEAN, fails \in BOOLEAN :
        LET k == pc[p]
            had == clients[k].session
            r == ExitOf(clients[k].kind, had, exc_type, fails)
        IN  /\ k # 0
            /\ sessions' = IF had = 0 THEN sessions
                           ELSE [sessions EXCEPT ![had].state = IF r.closed THEN "closed" ELSE @,
                                                 ![had].end = r.end]
            /\ clients' = [clients EXCEPT ![k].session = r.session]
            /\ pc' = [pc EXCEPT ![p] = db]
            /\ act' = Act("exit", p, k, clients[k].kind, had, r.session, exc_type, r.error,
                          r.returned, had # 0, Propagates(exc_type, r))
            /\ UNCHANGED <<codecVars, dbVars>>

ClientInit ==
    /\ fn = "none" /\ arg = [kind |-> "idle"] /\ out = NoOut
    /\ DbIdle
    /\ ClientIdle

\* one application (caller 1) that holds a client and calls its methods in any order
ClientNext == New(1) \/ Enter(1) \/ Invoke(1, SyncMethods) \/ Exit(1, pc[1])

SpecClient == ClientInit /\ [][ClientNext]_vars

\* the session methods the bodies of the service operations call
BodyMethods == {"add", "flush", "get", "all", "delete", "execute_raw_sql"}

\* a service operation of caller p reaches "with ORMClient(config=self.db_config)"
Begin == \E p \in Callers : pc[p] = 0 /\ New(p)

\* ... enters the block
Open == \E p \in Callers : pc[p] # 0 /\ clients[pc[p]].session = 0 /\ Enter(p)

\* ... runs a step of the body
Body == \E p \in Callers : pc[p] # 0 /\ clients[pc[p]].session # 0 /\ Invoke(p, BodyMethods)

\* ... leaves the block and returns: its local name db goes out of scope
End == \E p \in Callers : pc[p] # 0 /\ clients[pc[p]].session # 0 /\ Exit(p, 0)

CallsNext == Begin \/ Open \/ Body \/ End

SpecCalls == ClientInit /\ [][CallsNext]_vars

\* ---------------------------------------------------------- codec properties
\* an entry of a storage object that decode keeps: the key parses, the value validates
WellFormed(e) == int(e[1]).ok /\ ChannelControlConfig(e[2]).ok

ConfigFields == {"channel_id", "cycle_time", "waypoints", "interpolation_type",
                 "cartridge_id", "cartridge_name", "color"}

\* C1: decoding the encoding of a map of validated configs gives the map back: no
\* error, the same integer keys, and for each key a config equal in every field.
C1_RoundTrip ==
    fn = "roundtrip" =>
        /\ ~out.raised
        /\ Keys(out.m) = Keys(arg.m)
        /\ Len(out.m) = Len(arg.m)
        /\ \A k \in Keys(arg.m) :
              /\ Get(out.m, k).waypoints = Get(arg.m, k).waypoints
              /\ Get(out.m, k) = Get(arg.m, k)

C1_Witness ==
    /\ fn = "roundtrip" /\ Len(arg.m) >= 2
    /\ \E i \in 1..Len(arg.m) : arg.m[i][1] # arg.m[i][2].channel_id /\ arg.m[i][1] < 0
    /\ \E i \in 1..Len(arg.m) : Len(arg.m[i][2].waypoints) = 3
    /\ Len(out.m) >= 2

\* C2: decoding a storage object never raises, keeps every well-formed entry under
\* its parsed key, omits every other entry, and gives the result it gives when the
\* bad entries are taken out of the object beforehand.
C2_EntryGranular ==
    (fn = "decode" /\ IsKeyDict(arg.v)) =>
        /\ ~out.raised
        /\ Keys(out.m) = {int(arg.v.d[i][1]).v : i \in {j \in 1..Len(arg.v.d) : WellFormed(arg.v.d[j])}}
        /\ \A i \in 1..Len(arg.v.d) :
              (/\ WellFormed(arg.v.d[i])
               /\ \A j \in (i + 1)..Len(arg.v.d) :
                     WellFormed(arg.v.d[j]) => int(arg.v.d[j][1]).v # int(arg.v.d[i][1]).v)
              => Get(out.m, int(arg.v.d[i][1]).v) = ChannelControlConfig(arg.v.d[i][2]).v
        /\ out = _convert_json_to_channel_configs(PDict(SelectSeq(arg.v.d, WellFormed)))

C2_Witness ==
    /\ fn = "decode" /\ IsKeyDict(arg.v) /\ Len(arg.v.d) = 2
    /\ arg.v.d[1][2] = RawBadColor /\ int(arg.v.d[1][1]).ok
    /\ WellFormed(arg.v.d[2])
    /\ ~out.raised /\ Len(out.m) = 1

\* C7: neither codec operation raises, whatever the JSON shape of the storage value.
C7_CodecTotal == fn # "none" => ~out.raised

\* C8: a null or empty storage value decodes to the empty map without an error,
\* and so does a NULL column through the "or {}" of the read paths.
C8_EmptyDecode ==
    /\ (fn = "decode" /\ arg.v \in {PNone, PDict(<<>>)}) => (~out.raised /\ out.m = <<>>)
    /\ (fn = "decode_column" /\ arg.v \in {PNone, PDict(<<>>)}) => (~out.raised /\ out.m = <<>>)

C8_Witness == fn = "decode" /\ arg.v = PNone /\ ~out.raised

\* C9: the encoding has one entry per input entry, in order, keyed by the decimal
\* string of the integer key, with distinct keys, and each value is the dump of all
\* seven fields of the config, from which the config is rebuilt.
C9_EncodeComplete ==
    fn = "encode" =>
        /\ ~out.raised /\ IsKeyDict(out.v)
        /\ Len(out.v.d) = Len(arg.m)
        /\ DistinctKeys(out.v.d)
        /\ \A i \in 1..Len(arg.m) :
              /\ out.v.d[i][1] = str(arg.m[i][1])
              /\ int(out.v.d[i][1]) = Ok(arg.m[i][1])
              /\ IsObj(out.v.d[i][2]) /\ DOMAIN out.v.d[i][2].o = ConfigFields
              /\ ChannelControlConfig(out.v.d[i][2]) = Ok(arg.m[i][2])

C9_Witness ==
    /\ fn = "encode" /\ Len(arg.m) >= 2
    /\ arg.m[1][2].channel_id = arg.m[2][2].channel_id
    /\ arg.m[1][1] = 10
    /\ Len(out.v.d) >= 2

\* -------------------------------------------------------- service properties
\* C3: an update that returns an aggregate returns the state after the update: the
\* aggregate carries the values of the update data and equals what a read by id
\* returns right after the operation.
C3_UpdateReturnsPostState ==
    /\ (ret.op = "update_aromablock" /\ ~ret.raises /\ ret.val # PNone) =>
          /\ get_aromablock_by_id(blocks, ret.id) = [raises |-> FALSE, val |-> ret.val]
          /\ ret.val.name = ret.data.name
          /\ DictEq(ret.val.channel_configurations, ret.data.channel_configurations)
    /\ (ret.op = "update_aroma_track" /\ ~ret.raises /\ ret.val # PNone) =>
          /\ get_aroma_track_by_id(tracks, ret.id) = [raises |-> FALSE, val |-> ret.val]
          /\ ret.val.name = ret.data.name

\* C4: the exit of the unit of work of a write operation commits when every step of
\* the body succeeded and rolls back when a step of the body failed; a create whose
\* add or flush failed leaves through the rollback branch.
C4_UnitOfWork ==
    ret.op \in {"create_aroma_track", "create_aromablock", "update_aroma_track",
                "update_aromablock", "delete_aroma_track", "delete_aromablock"} =>
        /\ ret.fault = "none" => ret.branch = "commit"
        /\ ret.fault \in {"add", "flush"} => ret.branch = "rollback"

\* C5: when create_aromablock returns an aggregate, the row is committed under the
\* aggregate's id and a read of that id returns an aggregate equal to it in every
\* field, the channel configurations included.
C5_CreateAgreesWithRead ==
    (ret.op = "create_aromablock" /\ ~ret.raises /\ ret.val # PNone) =>
        /\ ret.committed
        /\ ret.val.id \in DOMAIN blocks
        /\ get_aromablock_by_id(blocks, ret.val.id) = [raises |-> FALSE, val |-> ret.val]
        /\ DictEq(ret.val.channel_configurations, ret.data.channel_configurations)

C5_Witness ==
    /\ ret.op = "create_aromablock" /\ ~ret.raises /\ ret.val # PNone
    /\ Len(ret.val.channel_configurations) = 2
    /\ ret.val.id \in DOMAIN blocks

\* a read that did not raise and returned exactly these channels with these configs
SameChannels(r, channel_configs) ==
    /\ ~r.raises
    /\ Keys(r.val.channel_configurations) = Keys(channel_configs)
    /\ Len(r.val.channel_configurations) = Len(channel_configs)
    /\ DictEq(r.val.channel_configurations, channel_configs)

\* C6: after a committed update of an existing block, a read of the block returns
\* exactly the channels of the update data, with the configs of the update data; a
\* channel stored before and absent from the data is gone.
C6_UpdateReplacesMap ==
    (ret.op = "update_aromablock" /\ ret.committed /\ ret.id \in DOMAIN blocks) =>
        SameChannels(get_aromablock_by_id(blocks, ret.id), ret.data.channel_configurations)

\* the value returned by the update is the aggregate read before the commit: it shows
\* channel 2 stored before, and the data has channel 1 only
C6_Witness ==
    /\ ret.op = "update_aromablock" /\ ret.committed /\ ret.id \in DOMAIN blocks
    /\ ret.val # PNone
    /\ 2 \in Keys(ret.val.channel_configurations)
    /\ Keys(ret.data.channel_configurations) = {1}
    /\ Keys(get_aromablock_by_id(blocks, ret.id).val.channel_configurations) = {1}

C11_ErrorsPropagate ==
    (/\ ret.op \in {"create_aroma_track", "create_aromablock", "update_aroma_track",
                   "update_aromablock"}
     /\ (ret.fault # "none" \/ ret.commitFails))
    => (ret.raises /\ ret.val = PNone)

\* the blocks of bs whose foreign key references track t
Referencing(bs, t) == {b \in DOMAIN bs : bs[b].aroma_track_id = PInt(t)}

\* C12: a delete_aroma_track(t) that returns True removes the track only: a read of t
\* returns None, every block is still there, the blocks that referenced t differ from
\* before in aroma_track_id alone, which is null in the row and in the aggregate read
\* back, and the other blocks are unchanged.
C12_NoCascade ==
    [][(ret'.op = "delete_aroma_track" /\ ~ret'.raises /\ ret'.val = PBool(TRUE)) =>
          /\ get_aroma_track_by_id(tracks', ret'.id) = [raises |-> FALSE, val |-> PNone]
          /\ DOMAIN blocks' = DOMAIN blocks
          /\ \A b \in DOMAIN blocks :
                blocks'[b] = IF b \in Referencing(blocks, ret'.id)
                             THEN [blocks[b] EXCEPT !.aroma_track_id = PNone]
                             ELSE blocks[b]
          /\ \A b \in Referencing(blocks, ret'.id) :
                /\ ~get_aromablock_by_id(blocks', b).raises
                /\ get_aromablock_by_id(blocks', b).val.aroma_track_id = PNone
      ]_vars

C12_Witness ==
    /\ ret.op = "delete_aroma_track" /\ ~ret.raises /\ ret.val = PBool(TRUE)
    /\ ret.id \notin DOMAIN tracks
    /\ \E b \in DOMAIN blocks :
          /\ blocks[b].name = BlockTwo.name
          /\ blocks[b].aroma_track_id = PNone
          /\ BlockTwo.aroma_track_id = PInt(ret.id)

\* a listing that does not hold an aggregate with this id (or that raised)
NotListed(listing, id) ==
    listing.raises \/ \A i \in 1..Len(listing.val.a) : listing.val.a[i].id # id

\* what a delete that returned has to leave behind in its table
DeleteReported(result, id, before, after) ==
    /\ result = PBool(id \in DOMAIN before)
    /\ result = PBool(TRUE) =>
          /\ DOMAIN after = DOMAIN before \ {id}
          /\ \A k \in DOMAIN after : after[k] = before[k]
          /\ ~delete(after, id).result

\* C13: a delete that returns, returns True exactly when the row existed when it was
\* fetched; after True a read of the id returns None, the listing does not hold it,
\* the other rows of the table are unchanged and a second delete returns False.
C13_DeleteReports ==
    [][/\ (ret'.op = "delete_aromablock" /\ ~ret'.raises) =>
             /\ DeleteReported(ret'.val, ret'.id, blocks, blocks')
             /\ ret'.val = PBool(TRUE) =>
                   /\ get_aromablock_by_id(blocks', ret'.id) = [raises |-> FALSE, val |-> PNone]
                   /\ NotListed(ListOfBlocks(ReadBlocks(blocks', 1, blockSeq')), ret'.id)
       /\ (ret'.op = "delete_aroma_track" /\ ~ret'.raises) =>
             /\ DeleteReported(ret'.val, ret'.id, tracks, tracks')
             /\ ret'.val = PBool(TRUE) =>
                   /\ get_aroma_track_by_id(tracks', ret'.id) = [raises |-> FALSE, val |-> PNone]
                   /\ NotListed(ListOfBlocks(ReadTracks(tracks', 1, trackSeq')), ret'.id)
      ]_vars

C13_Witness ==
    /\ ret.op = "delete_aromablock" /\ ~ret.raises /\ ret.val = PBool(TRUE)
    /\ ret.id \notin DOMAIN blocks
    /\ \E b \in DOMAIN blocks : b # ret.id /\ ~get_aromablock_by_id(blocks, b).raises

\* ---------------------------------------------------------- client properties
\* C14: in every interleaving of concurrent service operations, each step of an
\* operation works through the client its own call constructed and through a session
\* that call opened; the client is bound to no other caller, and the step changes no
\* client and no session of another call
C14_NoSharedState ==
    [][/\ act'.had # 0 =>
            /\ sessions[act'.had].opener = act'.caller
            /\ sessions[act'.had].client = act'.client
       /\ \A q \in Callers \ {act'.caller} : pc'[q] # act'.client
       /\ \A s \in DOMAIN sessions :
            sessions[s].opener # act'.caller => sessions'[s] = sessions[s]
       /\ \A k \in DOMAIN clients : k # act'.client => clients'[k] = clients[k]]_vars

C14_Witness ==
    /\ act.op \in BodyMethods
    /\ act.storage
    /\ \E q \in Callers \ {act.caller} :
        /\ pc[q] # 0
        /\ clients[pc[q]].session # 0
        /\ sessions[clients[pc[q]].session].state = "open"
        /\ sessions[act.had].state = "open"

\* C15: after the exit of a block that was entered, whether the body raised or not
\* and whether the commit or rollback raised or not, the session of the matching
\* enter is closed, the client's session attribute is None, and a method called on
\* the client raises RuntimeError
C15_SessionReleased ==
    (act.op = "exit" /\ act.had # 0) =>
        /\ sessions[act.had].state = "closed"
        /\ act.session = 0
        /\ clients[act.client].session = 0
        /\ Method(clients[act.client].session).error = "RuntimeError"

C15_Witness ==
    /\ act.op = "exit"
    /\ act.had # 0
    /\ act.exc
    /\ act.error = "SQLAlchemyError"
    /\ sessions[act.had].state = "closed"

\* C16: when the body of an entered block raised, the exit takes the rollback and
\* never the commit, and an exception reaches the code outside the block; an exit
\* that returns returns False
C16_NeverSuppresses ==
    act.op = "exit" =>
        /\ act.returned \in {"False", "none"}
        /\ act.error = "none" => act.returned = "False"
        /\ (act.exc /\ act.had # 0) =>
            /\ sessions[act.had].end # "commit"
            /\ act.error = "none" => sessions[act.had].end = "rollback"
            /\ act.propagates # "none"

C16_Witness ==
    /\ act.op = "exit"
    /\ act.kind = "sync"
    /\ act.had # 0
    /\ act.exc
    /\ act.error = "none"
    /\ act.returned = "False"
    /\ act.propagates = "body"
    /\ sessions[act.had].end = "rollback"

\* C17: a session method called on a client without active session raises
\* RuntimeError, touches no storage and leaves the client as it was; called inside
\* the block it does not raise RuntimeError
C17_OnlyInsideBlock ==
    act.op \in SyncMethods =>
        /\ act.op \in Methods(act.kind)
        /\ act.had = 0 =>
            /\ act.error = "RuntimeError"
            /\ ~act.storage
            /\ act.session = 0
        /\ act.had # 0 => act.error # "RuntimeError"

C17_Witness ==
    /\ act.op = "get"
    /\ act.had = 0
    /\ act.error = "RuntimeError"
    /\ ~act.storage
    /\ \E s \in DOMAIN sessions :
        sessions[s].client = act.client /\ sessions[s].state = "closed"

\* ------------------------------------------------------- schema construction
\* how far the components of the Color inputs reach beyond the limits 0 and 255
MaxOver == 1

\* the constants of class InterpolationType
InterpolationType ==
    {linear, exponential, sinusoidal, <<"s", "t", "e", "p">>, <<"f", "u", "n", "c">>}

\* integers around the two limits of a Color component, and one in the middle
Components(n) ==
    ((ColorMin - n)..(ColorMin + n)) \cup {128} \cup ((ColorMax - n)..(ColorMax + n))

\* the keyword arguments Color(r=.., g=.., b=..) of three integers
ColorArgs(n) ==
    {PObj([r |-> PInt(r), g |-> PInt(g), b |-> PInt(b)]) :
        r \in Components(n), g \in Components(n), b \in Components(n)}

Missing == [t |-> "missing"]

\* the keyword arguments o with the argument name left out or set to value
Keyword(o, name, value) ==
    IF value = Missing THEN [k \in DOMAIN o \ {name} |-> o[k]]
    ELSE [k \in DOMAIN o \cup {name} |-> IF k = name THEN value ELSE o[k]]

\* the keyword arguments of ChannelControlConfig: those of the example config with
\* channel_id, cycle_time and interpolation_type varied, "cubic" among them
ConfigArgs ==
    {PObj(Keyword(Keyword(Keyword(RawA.o, "channel_id", cid), "cycle_time", ct),
                  "interpolation_type", it)) :
        cid \in {Missing, PNone, PStr(<<"x">>), PFloat(15), PInt(-1), PInt(0), PInt(1), PInt(2)},
        ct \in {PInt(-1), PInt(0), PInt(1), PInt(30)},
        it \in {Missing, PStr(<<"c", "u", "b">>)} \cup {PStr(s) : s \in InterpolationType}}

SchemaInit ==
    /\ fn = "none"
    /\ arg \in {[kind |-> "color", v |-> v] : v \in ColorArgs(MaxOver)}
               \cup {[kind |-> "config", v |-> v] : v \in ConfigArgs}
    /\ out = NoOut
    /\ DbIdle
    /\ ClientIdle

\* the outcome of a construction: the instance, or ValidationError raised
Constructed(r) == [raised |-> ~r.ok, m |-> <<>>, v |-> IF r.ok THEN r.v ELSE PNone]

\* Color(**arg.v)
NewColor ==
    /\ fn = "none" /\ arg.kind = "color"
    /\ fn' = "Color"
    /\ out' = Constructed(Color(arg.v))
    /\ UNCHANGED <<arg, dbVars, clientVars>>

\* ChannelControlConfig(**arg.v)
NewConfig ==
    /\ fn = "none" /\ arg.kind = "config"
    /\ fn' = "ChannelControlConfig"
    /\ out' = Constructed(ChannelControlConfig(arg.v))
    /\ UNCHANGED <<arg, dbVars, clientVars>>

\* BaseModel.__setattr__ of a model whose model_config sets neither frozen nor
\* validate_assignment: the attribute takes the value as it is
__setattr__(c, name, value) == [c EXCEPT ![name] = value]

\* the Color an outcome holds: the instance itself, or the color field of a config
HeldColor(kind, v) == IF kind = "color" THEN v ELSE v.color

\* the outcome with its Color replaced
Holding(kind, v, c) == IF kind = "color" THEN c ELSE [v EXCEPT !.color = c]

\* color.r = value, color.g = value or color.b = value after construction
SetComponent ==
    \E name \in {"r", "g", "b"}, value \in Components(MaxOver) :
        /\ fn \in {"Color", "ChannelControlConfig"} /\ ~out.raised
        /\ fn' = "__setattr__"
        /\ out' = [out EXCEPT !.v = Holding(arg.kind, out.v,
                                            __setattr__(HeldColor(arg.kind, out.v), name, value))]
        /\ UNCHANGED <<arg, dbVars, clientVars>>

SchemaNext == NewColor \/ NewConfig \/ SetComponent

SpecSchema == SchemaInit /\ [][SchemaNext]_vars

\* ---------------------------------------------------------- schema properties
\* C18: Color built from three integers each in 0..255 succeeds and its fields are
\* the three integers; with a component below 0 or above 255 it raises ValidationError
C18_ColorValidation ==
    fn = "Color" =>
        IF \A k \in {"r", "g", "b"} : arg.v.o[k].i \in 0..255
        THEN /\ ~out.raised
             /\ out.v = [r |-> arg.v.o.r.i, g |-> arg.v.o.g.i, b |-> arg.v.o.b.i]
        ELSE out.raised

C18_Witness ==
    /\ fn = "Color"
    /\ arg.v.o.r.i = 0 /\ arg.v.o.g.i = 255 /\ arg.v.o.b.i = 256
    /\ out.raised

\* C19: ChannelControlConfig raises ValidationError when channel_id is missing or is
\* not an integer, or when cycle_time is below 1; an accepted config has
\* channel_id >= 1 and cycle_time >= 1
C19_ConfigBounds ==
    fn = "ChannelControlConfig" =>
        /\ ("channel_id" \notin DOMAIN arg.v.o \/ arg.v.o.cycle_time.i < 1) => out.raised
        /\ ("channel_id" \in DOMAIN arg.v.o /\ arg.v.o.channel_id.t # "int") => out.raised
        /\ ~out.raised => (out.v.channel_id >= 1 /\ out.v.cycle_time >= 1)

\* C20: an accepted ChannelControlConfig has interpolation_type among linear,
\* exponential, sinusoidal, step and function; any other value raises ValidationError
C20_ClosedEnumeration ==
    fn = "ChannelControlConfig" =>
        /\ ~out.raised => out.v.interpolation_type \in InterpolationType
        /\ ("interpolation_type" \in DOMAIN arg.v.o
                /\ arg.v.o.interpolation_type.s \notin InterpolationType) => out.raised

\* C21: an assignment to a component of a constructed Color does not take effect:
\* the Color still has the components it was constructed with, each in 0..255
C21_ColorImmutable ==
    fn = "__setattr__" =>
        /\ HeldColor(arg.kind, out.v) =
               Color(IF arg.kind = "color" THEN arg.v ELSE arg.v.o.color).v
        /\ \A k \in {"r", "g", "b"} : HeldColor(arg.kind, out.v)[k] \in ColorMin..ColorMax

\* ------------------------------------------------------ DatabaseConfig urls
\* strings here are sequences of tokens; the two schemes are one token each
Scheme == "postgresql://"
AsyncScheme == "postgresql+asyncpg://"

\* the configurations: every field from two values, options also empty
DatabaseConfigs ==
    [dbname : {<<"postgres">>, <<"smeller">>}, user : {<<"postgres">>, <<"app">>},
     password : {<<>>, <<"secret">>}, host : {<<"localhost">>, <<"db">>},
     port : {<<"5432">>}, options : {<<>>, <<"sslmode=require">>}]

\* property DatabaseConfig.url
url(c) ==
    <<Scheme>> \o c.user \o <<":">> \o c.password \o <<"@">> \o c.host \o <<":">> \o c.port
        \o <<"/">> \o c.dbname \o (IF c.options # <<>> THEN <<"?">> \o c.options ELSE <<>>)

\* value(): the call of what an attribute access returned; a str is not callable
Called(value) ==
    IF value.t = "str" THEN [raised |-> TRUE, error |-> "TypeError"]
    ELSE [raised |-> FALSE, error |-> "none", v |-> value]

\* u.replace("postgresql://", "postgresql+asyncpg://", 1) unless u starts with the
\* async scheme
AsyncOf(u) ==
    IF u # <<>> /\ Head(u) = AsyncScheme THEN u
    ELSE IF \E i \in 1..Len(u) : u[i] = Scheme
         THEN [i \in 1..Len(u) |->
                 IF i = (CHOOSE j \in 1..Len(u) : u[j] = Scheme /\ \A k \in 1..(j - 1) : u[k] # Scheme)
                 THEN AsyncScheme ELSE u[i]]
         ELSE u

\* property DatabaseConfig.async_url: it evaluates self.url(), the call of the str
\* that the property url returned
async_url(c) ==
    LET called == Called(PStr(url(c)))
    IN  IF called.raised THEN [raised |-> TRUE, m |-> <<>>, error |-> called.error]
        ELSE [raised |-> FALSE, m |-> <<>>, error |-> "none", v |-> AsyncOf(called.v.s)]

\* AsyncORMClient.__init__: create_async_engine(self.config.async_url, ...)
AsyncORMClient__init__(c) ==
    LET u == async_url(c)
    IN  IF u.raised THEN u
        ELSE [raised |-> FALSE, m |-> <<>>, error |-> "none", v |-> u.v, session |-> 0]

ConfigInit ==
    /\ fn = "none"
    /\ arg \in {[kind |-> "db_config", c |-> c] : c \in DatabaseConfigs}
    /\ out = NoOut
    /\ DbIdle
    /\ ClientIdle

\* config.url
GetUrl ==
    /\ fn = "none"
    /\ fn' = "url"
    /\ out' = [raised |-> FALSE, m |-> <<>>, error |-> "none", v |-> url(arg.c)]
    /\ UNCHANGED <<arg, dbVars, clientVars>>

\* config.async_url
GetAsyncUrl ==
    /\ fn \in {"none", "url"}
    /\ fn' = "async_url"
    /\ out' = async_url(arg.c)
    /\ UNCHANGED <<arg, dbVars, clientVars>>

\* AsyncORMClient(config=config)
NewAsyncORMClient ==
    /\ fn \in {"none", "url"}
    /\ fn' = "AsyncORMClient"
    /\ out' = AsyncORMClient__init__(arg.c)
    /\ UNCHANGED <<arg, dbVars, clientVars>>

ConfigNext == GetUrl \/ GetAsyncUrl \/ NewAsyncORMClient

SpecConfig == ConfigInit /\ [][ConfigNext]_vars

\* C22: async_url returns the url with its leading scheme postgresql:// replaced by
\* postgresql+asyncpg:// and does not fail, and the construction of an AsyncORMClient
\* obtains an engine url
C22_AsyncUrl ==
    /\ fn = "async_url" =>
        /\ ~out.raised
        /\ out.v = <<AsyncScheme>> \o Tail(url(arg.c))
    /\ fn = "AsyncORMClient" => ~out.raised

\* ------------------------------------------------ create_read_only_db_user
\* characters for which str.isalnum is true, among those of the inputs
AlnumChars == DigitChars \cup {"a", "b", "Z"}

\* mutant: any non-empty name passes
isalnum_NonEmpty(s) == s # <<>>

\* str.isalnum(): at least one character and every character alphanumeric
isalnum(s) == s # <<>> /\ \A i \in 1..Len(s) : s[i] \in AlnumChars

Usernames == {<<>>, <<"a">>, <<"Z", "1">>, <<"1">>, <<"a", ";">>, <<"a", " ", "b">>, <<"-">>,
              <<"a", "'">>}
Passwords == {<<"b">>, <<"'", ";">>}

\* a part of an f-string: literal text, or the value of an interpolated name
Part(of, val) == [of |-> of, val |-> val]

\* the four statements, each the text handed to text() and the bound parameters
Statements(db_name, username, password) ==
    << [sql |-> <<Part("text", "CREATE ROLE "), Part("username", username),
                  Part("text", " WITH LOGIN PASSWORD :user_password;")>>,
        params |-> [user_password |-> password]],
       [sql |-> <<Part("text", "GRANT CONNECT ON DATABASE "), Part("db_name", db_name),
                  Part("text", " TO "), Part("username", username), Part("text", ";")>>,
        params |-> <<>>],
       [sql |-> <<Part("text", "GRANT USAGE ON SCHEMA public TO "), Part("username", username),
                  Part("text", ";")>>,
        params |-> <<>>],
       [sql |-> <<Part("text", "GRANT SELECT ON ALL TABLES IN SCHEMA public TO "),
                  Part("username", username), Part("text", ";")>>,
        params |-> <<>>] >>

\* mutant: what the session executed persists however the transaction ended
Persisted_Always(end, done) == done

\* what the database keeps of the statements a session executed
Persisted(end, done) == IF end = "commit" THEN done ELSE <<>>

\* the outcome of one call: the statements sent to the session, those among them that
\* went through, how the transaction ended, what the database keeps, the value
\* returned and the exception that leaves the method
UserOutcome(opened, sent, done, exit, persisted, returned, raises) ==
    [raised |-> raises # "none", m |-> <<>>, opened |-> opened, sent |-> sent, done |-> done,
     branch |-> exit.branch, end |-> exit.end, closed |-> exit.closed,
     persisted |-> persisted, returned |-> returned, raises |-> raises]

NoExit == [branch |-> "none", end |-> "none", closed |-> FALSE]

\* the try block: the with-block with the four execute_raw_sql calls, of which the one
\* numbered fault (0: none) raises SQLAlchemyError, and the exit whose commit or
\* rollback fails or not; except SQLAlchemyError: return False
Attempt(kind, stmts, fault, fails) ==
    LET sent == IF fault = 0 THEN stmts ELSE SubSeq(stmts, 1, fault)
        done == IF fault = 0 THEN stmts ELSE SubSeq(stmts, 1, fault - 1)
        exit == ExitOf(kind, 1, fault # 0, fails)
    IN  UserOutcome(TRUE, sent, done, exit, Persisted(exit.end, done),
                    IF Propagates(fault # 0, exit) = "none" THEN "True" ELSE "False", "none")

\* DatabaseService.create_read_only_db_user / AsyncDatabaseService.create_read_only_db_user
create_read_only_db_user(kind, c, username, password, fault, fails) ==
    IF ~isalnum(username)
    THEN UserOutcome(FALSE, <<>>, <<>>, NoExit, <<>>, "False", "none")
    ELSE IF kind = "async" /\ AsyncORMClient__init__(c).raised
    THEN UserOutcome(FALSE, <<>>, <<>>, NoExit, <<>>, "none", AsyncORMClient__init__(c).error)
    ELSE Attempt(kind, Statements(c.dbname, username, password), fault, fails)

\* the configuration of the service
ServiceConfig ==
    [dbname |-> <<"smeller">>, user |-> <<"app">>, password |-> <<"secret">>,
     host |-> <<"db">>, port |-> <<"5432">>, options |-> <<>>]

UserInit ==
    /\ fn = "none"
    /\ arg \in [kind : {"user"}, service : {"sync", "async"}, username : Usernames,
                password : Passwords, fault : 0..4, fails : BOOLEAN]
    /\ out = NoOut
    /\ DbIdle
    /\ ClientIdle

\* one call of create_read_only_db_user(username, password)
CreateUser ==
    /\ fn = "none"
    /\ fn' = "create_read_only_db_user"
    /\ out' = create_read_only_db_user(arg.service, ServiceConfig, arg.username, arg.password,
                                       arg.fault, arg.fails)
    /\ UNCHANGED <<arg, dbVars, clientVars>>

UserNext == CreateUser

SpecUser == UserInit /\ [][UserNext]_vars

\* ------------------------------------------------------------ user properties
\* C23: a call with an empty username or one with a non-alphanumeric character returns
\* False, opens no session and sends no statement; every username interpolated into a
\* statement that is sent is purely alphanumeric, and the password is in no statement
\* text, only the bound parameter user_password of the first statement
C23_RoleNameGuard ==
    fn = "create_read_only_db_user" =>
        /\ (arg.username = <<>> \/ \E i \in 1..Len(arg.username) : arg.username[i] \notin AlnumChars)
            => (out.returned = "False" /\ ~out.opened /\ out.sent = <<>> /\ ~out.raised)
        /\ \A i \in 1..Len(out.sent) :
            /\ \A j \in 1..Len(out.sent[i].sql) :
                /\ out.sent[i].sql[j].of \in {"text", "db_name", "username"}
                /\ out.sent[i].sql[j].of = "username" =>
                    /\ out.sent[i].sql[j].val # <<>>
                    /\ \A k \in 1..Len(out.sent[i].sql[j].val) :
                        out.sent[i].sql[j].val[k] \in AlnumChars
            /\ out.sent[i].params = IF i = 1 THEN [user_password |-> arg.password] ELSE <<>>

C23_Witness ==
    /\ fn = "create_read_only_db_user"
    /\ arg.username = <<"a", ";">>
    /\ arg.service = "sync"
    /\ out.returned = "False" /\ ~out.opened /\ out.sent = <<>>

\* C24: a call that opens a session sends CREATE ROLE, GRANT CONNECT, GRANT USAGE and
\* GRANT SELECT in that order; it returns True only when all four went through and the
\* transaction was committed; when a statement or the commit raises, the statements
\* after the failing one are not sent, the session is closed without a commit, nothing
\* of the statements persists, and the call returns False and raises nothing
C24_AllOrNothing ==
    (fn = "create_read_only_db_user" /\ out.opened) =>
        /\ out.sent = SubSeq(Statements(ServiceConfig.dbname, arg.username, arg.password),
                             1, Len(out.sent))
        /\ out.returned = "True" =>
            /\ Len(out.done) = 4
            /\ out.end = "commit"
            /\ out.persisted = Statements(ServiceConfig.dbname, arg.username, arg.password)
        /\ (arg.fault # 0 \/ arg.fails) =>
            /\ out.returned = "False" /\ ~out.raised
            /\ out.end # "commit" /\ out.closed
            /\ out.persisted = <<>>
            /\ arg.fault # 0 =>
                (out.branch = "rollback" /\ Len(out.sent) = arg.fault /\ Len(out.done) = arg.fault - 1)

C24_Witness ==
    /\ fn = "create_read_only_db_user"
    /\ arg.service = "sync" /\ arg.fault = 3 /\ ~arg.fails
    /\ out.opened /\ Len(out.done) = 2 /\ out.end = "rollback"
    /\ out.persisted = <<>> /\ out.returned = "False"

\* ------------------------------------------------- DatabaseService.__init__
\* mutant: the drop does not depend on create_schema_on_init
SchemaSteps_DropAlone(create_schema_on_init, drop_all_on_init) ==
    (IF drop_all_on_init THEN <<"drop_all_tables">> ELSE <<>>)
        \o (IF create_schema_on_init THEN <<"create_all_tables">> ELSE <<>>)

\* the schema methods the constructor calls in its with-block, in the order of the code
SchemaSteps(create_schema_on_init, drop_all_on_init) ==
    IF ~create_schema_on_init THEN <<>>
    ELSE (IF drop_all_on_init THEN <<"drop_all_tables">> ELSE <<>>) \o <<"create_all_tables">>

\* the constructor's state: the calls still ahead in the block, the schema methods
\* called so far, whether the tables exist, whether a session was opened
Setup(todo, log, tables, opened, raised) ==
    [raised |-> raised, m |-> <<>>, todo |-> todo, log |-> log, tables |-> tables,
     opened |-> opened]

\* the flags of a constructor call, whether the tables exist before it, and which of
\* drop_all_tables, create_all_tables and the commit or rollback fail during it
SetupInit ==
    /\ fn = "none"
    /\ arg \in [kind : {"setup"}, create_schema_on_init : BOOLEAN, drop_all_on_init : BOOLEAN,
                tables : BOOLEAN, dropFails : BOOLEAN, createFails : BOOLEAN, fails : BOOLEAN]
    /\ out = Setup(<<>>, <<>>, arg.tables, FALSE, FALSE)
    /\ DbIdle
    /\ ClientIdle

\* DatabaseService.__init__ up to the with-block: without steps it returns at once
Start ==
    LET todo == SchemaSteps(arg.create_schema_on_init, arg.drop_all_on_init)
    IN  /\ fn = "none"
        /\ fn' = IF todo = <<>> THEN "returned" ELSE "block"
        /\ out' = Setup(todo, <<>>, arg.tables, todo # <<>>, FALSE)
        /\ UNCHANGED <<arg, dbVars, clientVars>>

\* temp_db.drop_all_tables(): Base.metadata.drop_all(self.engine), an error raised again
Drop ==
    /\ fn = "block" /\ out.todo # <<>> /\ Head(out.todo) = "drop_all_tables"
    /\ fn' = IF arg.dropFails THEN "raising" ELSE "block"
    /\ out' = Setup(Tail(out.todo), Append(out.log, [op |-> "drop_all_tables", ok |-> ~arg.dropFails]),
                    IF arg.dropFails THEN out.tables ELSE FALSE, TRUE, FALSE)
    /\ UNCHANGED <<arg, dbVars, clientVars>>

\* temp_db.create_all_tables(): Base.metadata.create_all(self.engine), an error raised again
Create ==
    /\ fn = "block" /\ out.todo # <<>> /\ Head(out.todo) = "create_all_tables"
    /\ fn' = IF arg.createFails THEN "raising" ELSE "block"
    /\ out' = Setup(Tail(out.todo), Append(out.log, [op |-> "create_all_tables", ok |-> ~arg.createFails]),
                    IF arg.createFails THEN out.tables ELSE TRUE, TRUE, FALSE)
    /\ UNCHANGED <<arg, dbVars, clientVars>>

\* the end of the with-block and of the constructor: it returns, or the exception of
\* the block or of the exit leaves it
Finish ==
    /\ \/ fn = "block" /\ out.todo = <<>>
       \/ fn = "raising"
    /\ fn' = IF Propagates(fn = "raising", ORMClient__exit__(1, fn = "raising", arg.fails)) = "none"
             THEN "returned" ELSE "raised"
    /\ out' = Setup(out.todo, out.log, out.tables, TRUE, fn' = "raised")
    /\ UNCHANGED <<arg, dbVars, clientVars>>

SetupNext == Start \/ Drop \/ Create \/ Finish

\* the constructor is sequential code that runs on until it returns or raises
SpecSetup == SetupInit /\ [][SetupNext]_vars /\ WF_vars(SetupNext)

\* ----------------------------------------------------------- setup properties
\* C25: drop_all_tables is called only when both flags are true, never after
\* create_all_tables, and a drop that went through is followed by the call of
\* create_all_tables; the tables exist when the constructor returns with
\* create_schema_on_init true; with it false the constructor calls no schema method,
\* opens no session and returns
C25_SetupOrder ==
    /\ [](fn # "none" =>
            /\ (\E i \in 1..Len(out.log) : out.log[i].op = "drop_all_tables")
                => (arg.create_schema_on_init /\ arg.drop_all_on_init)
            /\ \A i, j \in 1..Len(out.log) :
                (out.log[i].op = "drop_all_tables" /\ out.log[j].op = "create_all_tables") => i < j
            /\ (fn = "returned" /\ arg.create_schema_on_init) => out.tables
            /\ ~arg.create_schema_on_init =>
                (out.log = <<>> /\ ~out.opened /\ fn = "returned" /\ out.tables = arg.tables))
    /\ (\E i \in 1..Len(out.log) : out.log[i] = [op |-> "drop_all_tables", ok |-> TRUE])
        ~> (\E i \in 1..Len(out.log) : out.log[i].op = "create_all_tables")

C25_Witness ==
    /\ fn = "returned"
    /\ arg.tables /\ out.tables
    /\ out.log = <<[op |-> "drop_all_tables", ok |-> TRUE], [op |-> "create_all_tables", ok |-> TRUE]>>

\* C26: on every client at most one session is open at a time, and every open session
\* is the one its client holds, so that the exit of the client closes it
C26_SessionPairing ==
    \A s \in DOMAIN sessions :
        sessions[s].state = "open" =>
            /\ clients[sessions[s].client].session = s
            /\ \A t \in DOMAIN sessions :
                (sessions[t].state = "open" /\ sessions[t].client = sessions[s].client) => t = s

MaxPk == 3

\* a mapped instance with this primary key / the model class
Instance(pk) == [shape |-> "instance", pk |-> pk]
ModelClass == [shape |-> "class"]

\* Session.delete(obj): a mapped instance that is persistent is marked for deletion;
\* one that is not raises InvalidRequestError, a class UnmappedInstanceError
session_delete(table, obj) ==
    IF obj.shape = "class"
    THEN [raised |-> TRUE, m |-> <<>>, error |-> "UnmappedInstanceError", deleted |-> {}]
    ELSE IF obj.pk \notin DOMAIN table
    THEN [raised |-> TRUE, m |-> <<>>, error |-> "InvalidRequestError", deleted |-> {}]
    ELSE [raised |-> FALSE, m |-> <<>>, error |-> "none", result |-> TRUE, deleted |-> {obj.pk}]

ReturnFalse == [raised |-> FALSE, m |-> <<>>, error |-> "none", result |-> FALSE, deleted |-> {}]

\* ORMClient.delete(instance_or_model, pk) inside the block
ORMClient_delete(table, instance_or_model, pk) ==
    IF instance_or_model.shape = "instance" THEN session_delete(table, instance_or_model)
    ELSE IF pk # PNone
    THEN IF get(table, pk.i).found THEN session_delete(table, Instance(pk.i)) ELSE ReturnFalse
    ELSE ReturnFalse

\* AsyncORMClient.delete(instance_or_model, pk) inside the block: obj is the first
\* argument unless a pk came with a class, and a class is a true value
AsyncORMClient_delete(table, instance_or_model, pk) ==
    IF pk # PNone /\ instance_or_model.shape # "instance"
    THEN IF get(table, pk.i).found THEN session_delete(table, Instance(pk.i)) ELSE ReturnFalse
    ELSE session_delete(table, instance_or_model)

DeleteInit ==
    /\ fn = "none"
    /\ arg \in [kind : {"delete"}, table : {[k \in S |-> [id |-> k]] : S \in SUBSET (1..MaxPk)},
                instance_or_model : {Instance(k) : k \in 1..MaxPk} \cup {ModelClass},
                pk : {PNone} \cup {PInt(k) : k \in 1..MaxPk}]
    /\ out = NoOut
    /\ DbIdle
    /\ ClientIdle

\* db.delete(instance_or_model, pk) on an entered ORMClient
SyncDelete ==
    /\ fn = "none"
    /\ fn' = "ORMClient.delete"
    /\ out' = ORMClient_delete(arg.table, arg.instance_or_model, arg.pk)
    /\ UNCHANGED <<arg, dbVars, clientVars>>

\* await db.delete(instance_or_model, pk) on an entered AsyncORMClient
AsyncDelete ==
    /\ fn = "none"
    /\ fn' = "AsyncORMClient.delete"
    /\ out' = AsyncORMClient_delete(arg.table, arg.instance_or_model, arg.pk)
    /\ UNCHANGED <<arg, dbVars, clientVars>>

DeleteNext == SyncDelete \/ AsyncDelete

SpecDelete == DeleteInit /\ [][DeleteNext]_vars

\* C28: AsyncORMClient.delete returns what ORMClient.delete returns and marks the same
\* object or none, for a mapped instance, a class with the pk of an existing row, a
\* class with the pk of a missing row and a class with pk None; in the last two shapes
\* both return False and mark nothing
C28_DeleteMatches ==
    fn \in {"ORMClient.delete", "AsyncORMClient.delete"} =>
        /\ out = ORMClient_delete(arg.table, arg.instance_or_model, arg.pk)
        /\ (arg.instance_or_model = ModelClass
                /\ (arg.pk = PNone \/ arg.pk.i \notin DOMAIN arg.table))
            => (~out.raised /\ out.result = FALSE /\ out.deleted = {})

====
